---- MODULE Spec2Model ----
(***************************************************************************)
(* bandwidth-throttle-stream: a BandwidthThrottleGroup, its throttles      *)
(* (BandwidthThrottle and BandwidthThrottleWithBackpressure), the tick     *)
(* clock and the producer/consumer callbacks of the host TransformStream.  *)
(*                                                                         *)
(* The program is single-threaded: every host callback (a timer, a stream  *)
(* callback, a public method call) runs to completion together with the    *)
(* promise continuations (microtasks) it queues, so one action of the      *)
(* model is one callback plus its continuations, in the order the event    *)
(* loop runs them.  The operators below work on a record `w` holding the   *)
(* whole program state ("world"); an action computes the new world with    *)
(* them and assigns it to the variables.                                   *)
(***************************************************************************)
EXTENDS Integers, Sequences, FiniteSets, TLC

VARIABLES
    config,              \* BandwidthThrottleGroup.config (shared with every throttle)
    bandwidthThrottles,  \* group: list of attached throttles
    inFlightRequests,    \* group: list of in-flight throttles
    clockIntervalId,     \* group: NULL or the id of the running interval
    lastTickTime,        \* group
    tickIndex,           \* group
    secondIndex,         \* group
    totalBytesProcessed, \* group
    sampler,             \* the closure of pollThroughput, and what the observer saw
    throttle,            \* throttle id -> the fields of that throttle object
    budget,              \* what the environment may still do in this run
    calls,               \* observation: the calls the last callback made on throttles
    hist                 \* observation: the last executed ticks, oldest first

vars == <<config, bandwidthThrottles, inFlightRequests, clockIntervalId,
          lastTickTime, tickIndex, secondIndex, totalBytesProcessed,
          sampler, throttle, budget, calls, hist>>

-----------------------------------------------------------------------------
(* Bounds of the model *)

MaxThrottles == 2
MaxChunkLen == 2
MaxChunks == 2
MaxTicks == 4
MaxNow == 2000
MaxApiCalls == 1
MaxLifecycleChunks == 2
MaxLifecycleCalls == 3
MaxStreamChunks == 4
MaxStreamChunkLen == 3
MaxStreamTicks == 6
MaxStreamNow == 5000
MaxUnthrottledThrottles == 1
MaxUnthrottledChunks == 2
MaxUnthrottledChunkLen == 2
MaxUnthrottledTicks == 2
MaxRateThrottles == 3
MaxRateBytes == 7
MaxRateTicks == 4
MaxRateHist == 6
MaxSamplerChunks == 2
MaxSamplerChunkLen == 2
MaxSamplerTicks == 3

(* Program constants *)

NULL == 0
ChunkCounterLimit == 1000
MsPerSecond == 1000

Min(a, b) == IF a < b THEN a ELSE b
Max(a, b) == IF a > b THEN a ELSE b

Ids == 1..MaxThrottles
RateIds == 1..MaxRateThrottles
AllIds == 1..Max(MaxThrottles, Max(MaxRateThrottles, MaxUnthrottledThrottles))
INFINITY == [num |-> -1, den |-> 1]
NullBuffer == << -1 >>

-----------------------------------------------------------------------------
(* JavaScript built-ins used by the code *)

\* Array.prototype.indexOf, 0-based, -1 when absent
IndexOf(arr, x) ==
    IF \E i \in 1..Len(arr) : arr[i] = x
    THEN (CHOOSE i \in 1..Len(arr) : arr[i] = x /\ \A j \in 1..(i-1) : arr[j] # x) - 1
    ELSE -1

\* Array.prototype.splice(start, 1): a negative start counts from the end
Splice1(arr, start) ==
    LET pos == IF start < 0 THEN Max(Len(arr) + start, 0) ELSE Min(start, Len(arr))
    IN  IF pos >= Len(arr) THEN arr
        ELSE SubSeq(arr, 1, pos) \o SubSeq(arr, pos + 2, Len(arr))

\* new Uint8Array(n)
NewUint8Array(n) == [i \in 1..n |-> 0]

\* TypedArray.prototype.subarray(begin, end), clamped to the array
Subarray(buf, begin, end) ==
    LET b == Min(Max(begin, 0), Len(buf))
        e == Min(Max(end, 0), Len(buf))
    IN  IF e <= b THEN << >> ELSE SubSeq(buf, b + 1, e)

\* TypedArray.prototype.set(source, offset)
TypedArraySet(buf, source, offset) ==
    [i \in 1..Len(buf) |->
        IF i > offset /\ i <= offset + Len(source) THEN source[i - offset] ELSE buf[i]]

\* Math.ceil(a / b) for a >= 0, b > 0
CeilDiv(a, b) == (a + b - 1) \div b

\* Math.round(num / den): rounds half up; Infinity stays Infinity (-1)
MathRound(q) ==
    IF q.num < 0 THEN -1 ELSE (2 * q.num + q.den) \div (2 * q.den)

-----------------------------------------------------------------------------
(* The program state as one record, and the throttle objects *)

World ==
    [config |-> config, bandwidthThrottles |-> bandwidthThrottles,
     inFlightRequests |-> inFlightRequests, clockIntervalId |-> clockIntervalId,
     lastTickTime |-> lastTickTime, tickIndex |-> tickIndex,
     secondIndex |-> secondIndex, totalBytesProcessed |-> totalBytesProcessed,
     th |-> throttle, calls |-> << >>]

SetWorld(w) ==
    /\ config' = w.config
    /\ bandwidthThrottles' = w.bandwidthThrottles
    /\ inFlightRequests' = w.inFlightRequests
    /\ clockIntervalId' = w.clockIntervalId
    /\ lastTickTime' = w.lastTickTime
    /\ tickIndex' = w.tickIndex
    /\ secondIndex' = w.secondIndex
    /\ totalBytesProcessed' = w.totalBytesProcessed
    /\ sampler' = sampler
    /\ throttle' = w.th
    /\ calls' = w.calls

\* one entry of the observation: op is "process" (process() was called with
\* max bytes on a throttle holding `pending` bytes and decided to push n),
\* "push" (n bytes were enqueued downstream), "throw" (the call threw),
\* "complete" (process() ended the request), "gracefulAbort", "destroy",
\* "start" (handleRequestStart ran), "overflow" (transform refused the chunk),
\* "check" and "append" (the buffer as max, pendingBytesCount as pending and
\* pendingBytesReadIndex as n, when transform suspends and when it resumes)
Ev(op, t, max, pending, n) ==
    [op |-> op, t |-> t, max |-> max, pending |-> pending, n |-> n]

Log(w, e) == [w EXCEPT !.calls = Append(@, e)]

\* A throttle object right after its constructor ran (bp: the backpressure
\* variant).  The fields below the line belong to the host TransformStream and
\* to the observer: writePending (the promise the transform callback returned
\* is unresolved), timers (chunk lengths of the pending setTimeout calls),
\* flushCalled, ended (readable closed or stream terminated: enqueue throws),
\* locked (readable.locked and writable.locked), written (bytes accepted by
\* transform), emitted (the bytes enqueued downstream, by their position in the
\* accepted input).
NewThrottle(cfg, bp) ==
    [exists |-> TRUE, bp |-> bp,
     pendingBytesBuffer |-> NewUint8Array(cfg.bytesPerSecond),
     pendingBytesCount |-> 0,
     pendingBytesReadIndex |-> 0,
     pendingBytesBufferExpandedSize |-> cfg.bytesPerSecond,
     isDataBeingWritten |-> FALSE,
     done |-> FALSE,
     chunkCounter |-> 0,
     resolver_backpressure |-> FALSE,
     controller |-> FALSE,
     writePending |-> FALSE, timers |-> << >>, flushCalled |-> FALSE,
     ended |-> FALSE, locked |-> TRUE, written |-> 0, emitted |-> << >>,
     emissions |-> 0]

NoThrottle == [NewThrottle([bytesPerSecond |-> 0], FALSE) EXCEPT !.exists = FALSE]

-----------------------------------------------------------------------------
(* BandwidthThrottleGroup *)

hasTicked(w) == w.lastTickTime > -1

isTicking(w) == w.clockIntervalId # NULL

\* setInterval returns a truthy id
startClock(w) == 1

\* a stopClock that clears the interval and keeps the counters
stopClockKeepsCounters(w) == [w EXCEPT !.clockIntervalId = NULL]

stopClock(w) ==
    [w EXCEPT !.clockIntervalId = NULL, !.tickIndex = 0, !.secondIndex = 0,
              !.lastTickTime = -1]

\* a handleRequestStart that leaves the clock alone
handleRequestStartWithoutClock(w, t) ==
    [w EXCEPT !.inFlightRequests = Append(@, t)]

handleRequestStart(w, t) ==
    LET w1 == [w EXCEPT !.inFlightRequests = Append(@, t)]
    IN  IF w1.clockIntervalId # NULL THEN w1
        ELSE [w1 EXCEPT !.clockIntervalId = startClock(w1)]

\* the list after inFlightRequests.splice(inFlightRequests.indexOf(t), 1)
SpliceInFlight(arr, t) == Splice1(arr, IndexOf(arr, t))

\* a handleRequestStop that leaves the clock running
handleRequestStopKeepsClock(w, t) ==
    [w EXCEPT !.th[t].pendingBytesBuffer = NullBuffer,
              !.inFlightRequests = SpliceInFlight(@, t)]

handleRequestStop(w, t) ==
    LET w1 == [w EXCEPT !.th[t].pendingBytesBuffer = NullBuffer,
                        !.inFlightRequests = SpliceInFlight(@, t)]
    IN  IF Len(w1.inFlightRequests) = 0 THEN stopClock(w1) ELSE w1

\* the list after bandwidthThrottles.splice(bandwidthThrottles.indexOf(t), 1)
SpliceThrottles(arr, t) == Splice1(arr, IndexOf(arr, t))

handleRequestDestroy(w, t) ==
    [w EXCEPT !.th[t].pendingBytesBuffer = NullBuffer,
              !.bandwidthThrottles = SpliceThrottles(@, t)]

\* what JavaScript's `-` gives when an operand is not a number
NaN == -2

\* Config.throughputSampleSize: the length of the sampler's window
throughputSampleSize == 2

\* totalBytesProcessed - lastHeapRead: -1 stands for the string that
\* PlusPromise leaves in totalBytesProcessed, and a string that is no numeral
\* converts to NaN
Minus(a, b) == IF a < 0 \/ b < 0 THEN NaN ELSE a - b

\* Math.max(0, x): NaN if x is NaN
MathMax0(x) == IF x = NaN THEN NaN ELSE Max(0, x)

\* the callback of the interval that pollThroughput() sets: the new
\* totalBytesProcessed and the new state of the closure (emittedNow is the
\* observer's count of the bytes emitted so far)
pollThroughput(total, s, emittedNow) ==
    LET bytesSinceLastSample == MathMax0(Minus(total, s.lastHeapRead))
        pushed == Append(s.bytesPerSecondSamples, bytesSinceLastSample)
    IN  [total |-> IF bytesSinceLastSample = 0 THEN 0 ELSE total,
         sampler |-> [lastHeapRead |-> total,
                      bytesPerSecondSamples |->
                          IF Len(pushed) > throughputSampleSize THEN Tail(pushed)
                          ELSE pushed,
                      seen |-> emittedNow]]

\* a configure that leaves the configuration as it is
configureWithoutEffect(w, options) == w

configure(w, options) == [w EXCEPT !.config = options]

-----------------------------------------------------------------------------
(* BandwidthThrottle / BandwidthThrottleWithBackpressure *)

\* controller?.terminate(): closes the readable side, errors the writable side
Terminate(w, t) ==
    IF w.th[t].controller THEN [w EXCEPT !.th[t].ended = TRUE] ELSE w

destroy(w, t) == Terminate(handleRequestDestroy(w, t), t)

abort(w, t) == destroy(handleRequestStop(w, t), t)

gracefulAbort(w, t) ==
    destroy(handleRequestStop([w EXCEPT !.th[t].done = TRUE], t), t)

\* group.destroy(): while (bandwidthThrottles.length) bandwidthThrottles.pop().destroy()
RECURSIVE GroupDestroy(_)
GroupDestroy(w) ==
    IF Len(w.bandwidthThrottles) = 0 THEN w
    ELSE LET t == w.bandwidthThrottles[Len(w.bandwidthThrottles)]
             w1 == [w EXCEPT !.bandwidthThrottles = SubSeq(@, 1, Len(@) - 1)]
         IN  GroupDestroy(Log(destroy(w1, t), Ev("destroy", t, 0, 0, 0)))

ClampNum(number, min, max) == Max(min, Min(number, max))

\* a trim_buffer that reallocates the buffer and leaves what was read in it
TrimBufferWithoutCompaction(th) ==
    [th EXCEPT !.pendingBytesBuffer =
                   TypedArraySet(NewUint8Array(th.pendingBytesBufferExpandedSize),
                                 IF @ = NullBuffer THEN << >> ELSE @, 0)]

\* trim_buffer of the backpressure variant; a null buffer transfers nothing
TrimBufferBP(th) ==
    LET transferredBuffer ==
            IF th.pendingBytesBuffer = NullBuffer THEN << >>
            ELSE Subarray(th.pendingBytesBuffer, th.pendingBytesReadIndex,
                          th.pendingBytesCount)
    IN  [th EXCEPT !.pendingBytesBuffer =
                       TypedArraySet(NewUint8Array(th.pendingBytesBufferExpandedSize),
                                     transferredBuffer, 0),
                   !.pendingBytesReadIndex = 0,
                   !.pendingBytesCount = Len(transferredBuffer)]

\* trim_buffer of BandwidthThrottle (called with a non-null buffer only: on a
\* null buffer subarray throws and the caller's await rejects)
TrimBufferPlain(th, maxBufferSize) ==
    LET transferBufferLength ==
            ClampNum(th.pendingBytesCount - th.pendingBytesReadIndex, 0, maxBufferSize)
        transferredBuffer ==
            Subarray(th.pendingBytesBuffer, th.pendingBytesReadIndex,
                     th.pendingBytesCount)
    IN  [th EXCEPT !.pendingBytesBuffer =
                       TypedArraySet(NewUint8Array(th.pendingBytesBufferExpandedSize),
                                     transferredBuffer, 0),
                   !.pendingBytesReadIndex = 0,
                   !.pendingBytesCount = transferBufferLength]

trim_buffer(w, t) ==
    IF w.th[t].bp THEN [w EXCEPT !.th[t] = TrimBufferBP(@)]
    ELSE [w EXCEPT !.th[t] = TrimBufferPlain(@, w.config.maxBufferSize)]

\* controller.enqueue throws when there is no controller yet, or the readable
\* side is closed or the stream terminated
CanEnqueue(th) == th.controller /\ ~th.ended

\* endReadIndex = Math.min(readIndex + maxBytesToProcess, pendingBytesCount);
\* the backpressure variant rounds maxBytesToProcess first
EndReadIndex(th, maxBytes) ==
    IF maxBytes.num < 0 THEN th.pendingBytesCount
    ELSE IF th.bp
         THEN Min(th.pendingBytesReadIndex + MathRound(maxBytes), th.pendingBytesCount)
         ELSE Min(th.pendingBytesReadIndex + (maxBytes.num \div maxBytes.den),
                  th.pendingBytesCount)

\* an end of process() that completes whatever the mode
CompletionInEveryMode(w, t) ==
    IF \/ w.th[t].pendingBytesReadIndex < w.th[t].pendingBytesCount
       \/ w.th[t].isDataBeingWritten
    THEN w
    ELSE destroy(handleRequestStop(
             Log([w EXCEPT !.th[t].done = TRUE], Ev("complete", t, 0, 0, 0)), t), t)

\* an end of process() that does not wait for the producer
CompletionBeforeFlush(w, t) ==
    IF \/ w.th[t].pendingBytesReadIndex < w.th[t].pendingBytesCount
       \/ ~w.config.isThrottled
    THEN w
    ELSE destroy(handleRequestStop(
             Log([w EXCEPT !.th[t].done = TRUE], Ev("complete", t, 0, 0, 0)), t), t)

\* the end of process(): "Do not complete if ..." and "End the request"
Completion(w, t) ==
    IF \/ w.th[t].pendingBytesReadIndex < w.th[t].pendingBytesCount
       \/ w.th[t].isDataBeingWritten
       \/ ~w.config.isThrottled
    THEN w
    ELSE destroy(handleRequestStop(
             Log([w EXCEPT !.th[t].done = TRUE], Ev("complete", t, 0, 0, 0)), t), t)

\* push(): controller.enqueue(chunk), then the backpressure resolver if given
Push(w, t, bytes, resolver) ==
    LET w1 == [w EXCEPT !.th[t].emitted = @ \o bytes, !.th[t].emissions = @ + 1]
    IN  Log(IF resolver THEN [w1 EXCEPT !.th[t].writePending = FALSE] ELSE w1,
            Ev("push", t, 0, 0, Len(bytes)))

\* process() up to its first await.  Returns the new state, the number of
\* bytes to push and, when the function suspended at `await trim_buffer()`,
\* its continuation (the throttle and the bytes it captured).
ProcessSync(w, t, maxBytes) ==
    LET th == w.th[t]
        startReadIndex == th.pendingBytesReadIndex
        endReadIndex == EndReadIndex(th, maxBytes)
        bytesToPushLength == endReadIndex - startReadIndex
        w0 == Log(w, Ev("process", t, maxBytes,
                         th.pendingBytesCount - th.pendingBytesReadIndex,
                         bytesToPushLength))
        thrown == [w |-> Log(w0, Ev("throw", t, 0, 0, 0)), cont |-> << >>]
    IN  IF bytesToPushLength > 0
        THEN IF th.pendingBytesBuffer = NullBuffer THEN thrown
             ELSE LET bytesToPush == Subarray(th.pendingBytesBuffer, startReadIndex,
                                              endReadIndex)
                      w1 == [w0 EXCEPT !.th[t].pendingBytesReadIndex = endReadIndex]
                  IN  IF th.bp
                      THEN [w |-> trim_buffer(w1, t),
                            cont |-> << [t |-> t, bytes |-> bytesToPush] >>]
                      ELSE IF ~CanEnqueue(th)
                           THEN [w |-> Log(w1, Ev("throw", t, 0, 0, 0)), cont |-> << >>]
                           ELSE [w |-> trim_buffer(Push(w1, t, bytesToPush, FALSE), t),
                                 cont |-> << [t |-> t, bytes |-> bytesToPush] >>]
        ELSE [w |-> Completion(w0, t), cont |-> << >>]

\* process() after `await trim_buffer()`
ProcessCont(w, c) ==
    LET t == c.t
        th == w.th[t]
    IN  IF th.bp
        THEN LET formerresolver == th.resolver_backpressure
                 w1 == [w EXCEPT !.th[t].resolver_backpressure = FALSE]
             IN  IF ~CanEnqueue(th) THEN Log(w1, Ev("throw", t, 0, 0, 0))
                 ELSE Completion(Push(w1, t, c.bytes, formerresolver), t)
        ELSE Completion(w, t)

RECURSIVE RunConts(_, _)
RunConts(w, conts) ==
    IF conts = << >> THEN w
    ELSE RunConts(ProcessCont(w, Head(conts)), Tail(conts))

\* a call of process() that nothing else interleaves with
process(w, t, maxBytes) ==
    LET r == ProcessSync(w, t, maxBytes) IN RunConts(r.w, r.cont)

\* process(undefined) at the end of transform when no throttling is applied:
\* the part before its first await, and its continuation if it suspended
Drain(w, t) ==
    IF ~w.config.isThrottled THEN ProcessSync(w, t, INFINITY)
    ELSE [w |-> w, cont |-> << >>]

\* transform(chunk), the chunk holding the next len bytes of the input, up
\* to `await this.trim_buffer()` or, on the paths without an await, to its
\* end.  Returns the new state and the continuations queued as microtasks:
\* the rest of transform (with the chunk it holds), or the rest of the
\* process() call it made.  The observer notes the buffer and the counters
\* the function leaves at the await ("check").
TransformSync(w, t, len) ==
    LET w1 == IF ~w.th[t].isDataBeingWritten
              THEN [Log(handleRequestStart(w, t), Ev("start", t, 0, 0, 0))
                       EXCEPT !.th[t].isDataBeingWritten = TRUE]
              ELSE w
        th == w1.th[t]
        chunk == [i \in 1..len |-> th.written + i]
        remainingContentInBufferLength ==
            th.pendingBytesCount - th.pendingBytesReadIndex
        needed == len + remainingContentInBufferLength
        mustExpand == IF th.bp THEN needed > th.pendingBytesBufferExpandedSize
                      ELSE th.pendingBytesBufferExpandedSize < w1.config.maxBufferSize
        pendingBytesBufferExpandedFactor == CeilDiv(needed, w1.config.bytesPerSecond)
        expandedSize ==
            IF ~mustExpand THEN th.pendingBytesBufferExpandedSize
            ELSE IF w1.config.bytesPerSecond * pendingBytesBufferExpandedFactor
                        > w1.config.maxBufferSize
                 THEN w1.config.maxBufferSize
                 ELSE w1.config.bytesPerSecond * pendingBytesBufferExpandedFactor
        \* branch 1: the chunk does not fit the buffer as it is
        w2 == trim_buffer([w1 EXCEPT !.th[t].pendingBytesBufferExpandedSize = expandedSize], t)
        \* branch 2: pendingBytesBuffer?.set(chunk, pendingBytesCount)
        w4 == [w1 EXCEPT !.th[t].pendingBytesBuffer =
                             IF @ = NullBuffer THEN @
                             ELSE TypedArraySet(@, chunk, th.pendingBytesCount),
                         !.th[t].pendingBytesCount = @ + len,
                         !.th[t].written = @ + len]
    IN  IF len + th.pendingBytesCount > th.pendingBytesBufferExpandedSize
        THEN IF needed <= w1.config.maxBufferSize
             THEN IF ~th.bp /\ th.pendingBytesBuffer = NullBuffer
                  THEN [w |-> Log([w1 EXCEPT !.th[t].pendingBytesBufferExpandedSize =
                                                 expandedSize],
                                  Ev("throw", t, 0, 0, 0)),
                        cont |-> << >>]
                  ELSE [w |-> Log(w2, Ev("check", t, w2.th[t].pendingBytesBuffer,
                                         w2.th[t].pendingBytesCount,
                                         w2.th[t].pendingBytesReadIndex)),
                        cont |-> << [t |-> t, chunk |-> chunk] >>]
             ELSE [w |-> Log(handleRequestDestroy(w1, t), Ev("overflow", t, 0, 0, len)),
                   cont |-> << >>]
        ELSE Drain(w4, t)

\* transform after `await this.trim_buffer()`: the append, with the buffer and
\* the counters as they are when the function resumes ("append" is what the
\* observer notes of them), then process(undefined) when unthrottled
TransformCont(w, c) ==
    LET t == c.t
        th == w.th[t]
        w0 == Log(w, Ev("append", t, th.pendingBytesBuffer, th.pendingBytesCount,
                        th.pendingBytesReadIndex))
        w3 == [w0 EXCEPT !.th[t].pendingBytesBuffer =
                             TypedArraySet(@, c.chunk, th.pendingBytesCount),
                         !.th[t].pendingBytesCount = @ + Len(c.chunk),
                         !.th[t].written = @ + Len(c.chunk)]
    IN  Drain(w3, t)

\* the microtask queue: the continuations run first in, first out, before
\* the next callback of the host, and those they queue go to the end
RECURSIVE RunMicrotasks(_, _)
RunMicrotasks(w, queue) ==
    IF queue = << >> THEN w
    ELSE IF "chunk" \in DOMAIN Head(queue)
         THEN LET r == TransformCont(w, Head(queue))
              IN  RunMicrotasks(r.w, Tail(queue) \o r.cont)
         ELSE RunMicrotasks(ProcessCont(w, Head(queue)), Tail(queue))

\* a transform whose `await` lets a process() call of the clock run before it
\* resumes
transformResumedAfterProcess(w, t, len) ==
    LET r == TransformSync(w, t, len)
    IN  IF r.cont # << >> /\ "chunk" \in DOMAIN Head(r.cont)
        THEN RunMicrotasks(process(r.w, t, [num |-> 1, den |-> 1]), r.cont)
        ELSE RunMicrotasks(r.w, r.cont)

\* transform(chunk), called by the timer, with the microtasks it queues
transform(w, t, len) ==
    LET r == TransformSync(w, t, len) IN RunMicrotasks(r.w, r.cont)

\* flush()
flush(w, t) ==
    LET w1 == [w EXCEPT !.th[t].isDataBeingWritten = FALSE, !.th[t].flushCalled = TRUE]
    IN  IF w1.th[t].pendingBytesCount = 0
        THEN [w1 EXCEPT !.th[t].ended = TRUE]
        ELSE IF ~w1.config.isThrottled
             THEN destroy(handleRequestStop(w1, t), t)
             ELSE w1

\* the transform callback the constructor hands to the TransformStream.  The
\* backpressure variant keeps the promise's resolver and, for the first
\* ChunkCounterLimit chunks, schedules transform(chunk) with setTimeout; the
\* plain variant returns a promise that nothing resolves and never calls
\* transform.
TransformCallback(w, t, len) ==
    LET w1 == [w EXCEPT !.th[t].controller = TRUE,
                        !.th[t].chunkCounter = @ + 1,
                        !.th[t].writePending = TRUE]
    IN  IF w1.th[t].bp
        THEN [w1 EXCEPT !.th[t].resolver_backpressure = TRUE,
                        !.th[t].timers =
                            IF w1.th[t].chunkCounter <= ChunkCounterLimit
                            THEN Append(@, len) ELSE @]
        ELSE w1

-----------------------------------------------------------------------------
(* The tick *)

\* Util/getPartitionedIntegerPartAtIndex: the index-th of `parts` integers
\* that sum to total, the first (total mod parts) of them one larger
getPartitionedIntegerPartAtIndex(total, parts, index) ==
    (total \div parts) + (IF index < total % parts THEN 1 ELSE 0)

\* Config.tickDurationMs = 1000 / ticksPerSecond, kept as a fraction
tickDurationMs(cfg) == [num |-> MsPerSecond, den |-> cfg.ticksPerSecond]

\* a test of the elapsed time that lets every firing through
NeverTooEarly(elapsedTime, cfg) == FALSE

\* elapsedTime < tickDurationMs
LessThanTickDuration(elapsedTime, cfg) ==
    elapsedTime * tickDurationMs(cfg).den < tickDurationMs(cfg).num

\* Math.max(1, elapsedTime / tickDurationMs), as a fraction
DelayMultiplier(elapsedTime, cfg) ==
    [num |-> Max(tickDurationMs(cfg).num, elapsedTime * tickDurationMs(cfg).den),
     den |-> tickDurationMs(cfg).num]

\* a rotation that ignores the period
RotatedIndexOfFirstSecond(i, period, length) == i % length

\* (i + period) % inFlightRequestsArray.length
RotatedIndex(i, period, length) == (i + period) % length

\* bytesPerRequestPerTick for the throttle at index i of a list of `length`
BytesPerRequestPerTick(cfg, length, rotatedIndex, tick) ==
    LET bytesPerRequestPerSecond ==
            getPartitionedIntegerPartAtIndex(cfg.bytesPerSecond, length, rotatedIndex)
    IN  getPartitionedIntegerPartAtIndex(bytesPerRequestPerSecond,
                                         cfg.ticksPerSecond, tick)

\* bytesPerRequestPerTick * delayMultiplier
TimesMultiplier(bytes, m) == [num |-> bytes * m.num, den |-> m.den]

\* totalBytesProcessed += bytesProcessed: process() is async, so bytesProcessed
\* is a Promise and the sum is the concatenation of two strings; -1 stands for
\* that string
PlusPromise(total) == -1

\* the callback of inFlightRequests.forEach for index i
TickOne(w, i, period, delayMultiplier) ==
    LET arr == w.inFlightRequests
        t == arr[i + 1]
    IN  IF ~w.th[t].locked
        THEN [w |-> gracefulAbort(Log(w, Ev("gracefulAbort", t, 0, 0, 0)), t),
              cont |-> << >>]
        ELSE LET rotatedIndex == RotatedIndex(i, period, Len(arr))
                 bytesPerRequestPerTick ==
                     BytesPerRequestPerTick(w.config, Len(arr), rotatedIndex, w.tickIndex)
                 r == ProcessSync(w, t, TimesMultiplier(bytesPerRequestPerTick,
                                                        delayMultiplier))
             IN  [w |-> [r.w EXCEPT !.totalBytesProcessed = PlusPromise(@)],
                  cont |-> r.cont]

\* Array.prototype.forEach: visits the indices below the length the list had
\* at the start that are still present when their turn comes
RECURSIVE ForEachInFlight(_, _, _, _, _)
ForEachInFlight(acc, i, len0, period, delayMultiplier) ==
    IF i >= len0 THEN acc
    ELSE IF i >= Len(acc.w.inFlightRequests)
         THEN ForEachInFlight(acc, i + 1, len0, period, delayMultiplier)
         ELSE LET r == TickOne(acc.w, i, period, delayMultiplier)
              IN  ForEachInFlight([w |-> r.w, cont |-> acc.cont \o r.cont],
                                  i + 1, len0, period, delayMultiplier)

\* "Increment the tick index, or reset it to 0 ..." and "Increment the last
\* push time"
AdvanceCounters(w, elapsedTime, dateNow) ==
    LET next == w.tickIndex + 1
        w1 == IF next = w.config.ticksPerSecond
              THEN [w EXCEPT !.tickIndex = 0, !.secondIndex = @ + 1]
              ELSE [w EXCEPT !.tickIndex = next]
    IN  [w1 EXCEPT !.lastTickTime =
                       IF hasTicked(w1) THEN @ + elapsedTime ELSE dateNow]

\* dateNow: what Date.now() returns to this call
processInFlightRequests(w, dateNow) ==
    LET elapsedTime == IF hasTicked(w) THEN dateNow - w.lastTickTime ELSE 0
    IN  IF w.config.isThrottled /\ hasTicked(w)
           /\ LessThanTickDuration(elapsedTime, w.config)
        THEN w
        ELSE LET delayMultiplier == DelayMultiplier(elapsedTime, w.config)
                 len0 == Len(w.inFlightRequests)
                 period == IF len0 = 0 THEN 0 ELSE w.secondIndex % len0
                 r == ForEachInFlight([w |-> w, cont |-> << >>], 0, len0, period,
                                      delayMultiplier)
                 w1 == IF ~isTicking(r.w) THEN r.w
                       ELSE AdvanceCounters(r.w, elapsedTime, dateNow)
             IN  RunConts(w1, r.cont)

-----------------------------------------------------------------------------
(* The configurations and the actions *)

Configs ==
    {[isThrottled |-> TRUE, bytesPerSecond |-> 1, ticksPerSecond |-> 1, maxBufferSize |-> 2],
     [isThrottled |-> FALSE, bytesPerSecond |-> 1, ticksPerSecond |-> 1, maxBufferSize |-> 2],
     [isThrottled |-> TRUE, bytesPerSecond |-> 3, ticksPerSecond |-> 2, maxBufferSize |-> 3]}

\* the time since the last executed tick at which the interval may fire
ElapsedTimes == {500, 1000, 1500}

Created == {t \in AllIds : throttle[t].exists}

\* a call from outside (a public method, the consumer detaching) uses up one
\* of the calls the run is allowed
OutsideCall == budget.calls > 0 /\ budget' = [budget EXCEPT !.calls = @ - 1]

\* the state after `new BandwidthThrottleGroup(options)`
GroupCreated(options) ==
    /\ config = options
    /\ bandwidthThrottles = << >>
    /\ inFlightRequests = << >>
    /\ clockIntervalId = NULL
    /\ lastTickTime = -1
    /\ tickIndex = 0
    /\ secondIndex = 0
    /\ totalBytesProcessed = 0
    /\ sampler = [lastHeapRead |-> 0, bytesPerSecondSamples |-> << >>, seen |-> 0]
    /\ throttle = [t \in AllIds |-> NoThrottle]
    /\ calls = << >>
    /\ hist = << >>

Init ==
    /\ \E options \in Configs : GroupCreated(options)
    /\ budget = [chunks |-> MaxChunks, calls |-> MaxApiCalls, len |-> MaxChunkLen,
                 elapsed |-> ElapsedTimes, throttles |-> MaxThrottles,
                 ticks |-> MaxTicks, now |-> MaxNow, hist |-> 0]

\* group.createBandwidthThrottle(contentLength, backpressure)
CreateBandwidthThrottle(bp) ==
    /\ Cardinality(Created) < budget.throttles
    /\ LET t == Cardinality(Created) + 1
       IN  SetWorld([World EXCEPT !.th[t] = NewThrottle(config, bp),
                                  !.bandwidthThrottles = Append(@, t)])
    /\ UNCHANGED <<budget, hist>>

\* the producer writes a chunk: the stream calls the transform callback once
\* the promise of the previous chunk is resolved
Write(t, len) ==
    /\ throttle[t].exists /\ ~throttle[t].writePending
    /\ ~throttle[t].flushCalled /\ ~throttle[t].ended
    /\ budget.chunks > 0 /\ len <= budget.len
    /\ budget' = [budget EXCEPT !.chunks = @ - 1]
    /\ SetWorld(TransformCallback(World, t, len))
    /\ UNCHANGED hist

\* the oldest setTimeout of the throttle fires: transform(chunk)
TimerFires(t) ==
    /\ throttle[t].timers # << >>
    /\ SetWorld(transform([World EXCEPT !.th[t].timers = Tail(@)], t,
                          Head(throttle[t].timers)))
    /\ UNCHANGED <<budget, hist>>

\* the producer closes the writable side: the stream calls flush
Flush(t) ==
    /\ throttle[t].exists /\ ~throttle[t].writePending
    /\ ~throttle[t].flushCalled /\ ~throttle[t].ended
    /\ SetWorld(flush(World, t))
    /\ UNCHANGED <<budget, hist>>

\* Date.now() as read by a firing of the clock: `elapsed` after the last
\* executed tick; the first tick after the clock started is the origin of time
DateNow(elapsed) == IF lastTickTime > -1 THEN lastTickTime + elapsed ELSE 0

\* what the observer keeps of an executed tick: the counters and the list it
\* started from, whether it came late, and the calls it made
Observation(elapsed, made) ==
    [tickIndex |-> tickIndex, secondIndex |-> secondIndex,
     inFlight |-> inFlightRequests,
     late |-> lastTickTime > -1 /\ elapsed * config.ticksPerSecond > MsPerSecond,
     calls |-> made]

LastN(seq, n) == IF Len(seq) <= n THEN seq ELSE SubSeq(seq, Len(seq) - n + 1, Len(seq))

\* the interval of the clock fires
ClockFires(elapsed) ==
    /\ clockIntervalId # NULL /\ elapsed \in budget.elapsed
    /\ tickIndex < budget.ticks /\ secondIndex < budget.ticks
    /\ DateNow(elapsed) <= budget.now
    /\ LET w == processInFlightRequests(World, DateNow(elapsed))
       IN  /\ SetWorld(w)
           /\ hist' = IF w.calls = << >> THEN hist
                      ELSE LastN(Append(hist, Observation(elapsed, w.calls)), budget.hist)
    /\ UNCHANGED budget

Abort(t) ==
    /\ throttle[t].exists /\ OutsideCall
    /\ SetWorld(abort(World, t))
    /\ UNCHANGED hist

GracefulAbort(t) ==
    /\ throttle[t].exists /\ OutsideCall
    /\ SetWorld(gracefulAbort(World, t))
    /\ UNCHANGED hist

Destroy(t) ==
    /\ throttle[t].exists /\ OutsideCall
    /\ SetWorld(destroy(World, t))
    /\ UNCHANGED hist

DestroyGroup ==
    /\ OutsideCall
    /\ SetWorld(GroupDestroy(World))
    /\ UNCHANGED hist

Configure(options) ==
    /\ options # config /\ OutsideCall
    /\ SetWorld(configure(World, options))
    /\ UNCHANGED hist

\* the consumer lets go of the readable side (or the producer of the writable)
Detach(t) ==
    /\ throttle[t].exists /\ throttle[t].locked /\ OutsideCall
    /\ SetWorld([World EXCEPT !.th[t].locked = FALSE])
    /\ UNCHANGED hist

\* the bytes the throttles have emitted so far
RECURSIVE TotalEmitted(_)
TotalEmitted(S) ==
    IF S = {} THEN 0
    ELSE LET t == CHOOSE x \in S : TRUE
         IN  Len(throttle[t].emitted) + TotalEmitted(S \ {t})

\* the interval of the throughput sampler fires.  Nothing but the sampler
\* reads totalBytesProcessed, so the specifications that are not about the
\* sampler leave this action out.
PollThroughput ==
    /\ LET r == pollThroughput(totalBytesProcessed, sampler, TotalEmitted(AllIds))
       IN  /\ totalBytesProcessed' = r.total
           /\ sampler' = r.sampler
    /\ calls' = << >>
    /\ UNCHANGED <<config, bandwidthThrottles, inFlightRequests, clockIntervalId,
                   lastTickTime, tickIndex, secondIndex, throttle, budget, hist>>

Next ==
    \/ \E bp \in BOOLEAN : CreateBandwidthThrottle(bp)
    \/ \E t \in Ids, len \in 0..MaxChunkLen : Write(t, len)
    \/ \E t \in Ids : TimerFires(t)
    \/ \E t \in Ids : Flush(t)
    \/ \E elapsed \in ElapsedTimes : ClockFires(elapsed)
    \/ \E t \in Ids : Abort(t)
    \/ \E t \in Ids : GracefulAbort(t)
    \/ \E t \in Ids : Destroy(t)
    \/ DestroyGroup
    \/ \E options \in Configs : Configure(options)
    \/ \E t \in Ids : Detach(t)

Spec == Init /\ [][Next]_vars

\* The life cycle of the throttles: short chunks, punctual ticks, one
\* configuration, and more calls from outside
LifecycleConfig ==
    [isThrottled |-> TRUE, bytesPerSecond |-> 1, ticksPerSecond |-> 1, maxBufferSize |-> 2]

InitLifecycle ==
    /\ GroupCreated(LifecycleConfig)
    /\ budget = [chunks |-> MaxLifecycleChunks, calls |-> MaxLifecycleCalls, len |-> 1,
                 elapsed |-> {1000}, throttles |-> MaxThrottles,
                 ticks |-> MaxTicks, now |-> MaxNow, hist |-> 0]

SpecLifecycle == InitLifecycle /\ [][Next]_vars

\* One backpressure throttle fed by its producer and drained by the clock,
\* with nothing else calling in: more chunks and more ticks
StreamConfigs ==
    {c \in Configs : c.isThrottled} \cup
    {[isThrottled |-> TRUE, bytesPerSecond |-> 1, ticksPerSecond |-> 1, maxBufferSize |-> 3]}

InitStream ==
    /\ \E options \in StreamConfigs : GroupCreated(options)
    /\ budget = [chunks |-> MaxStreamChunks, calls |-> 0, len |-> MaxStreamChunkLen,
                 elapsed |-> {500, 1000}, throttles |-> 1,
                 ticks |-> MaxStreamTicks, now |-> MaxStreamNow, hist |-> 2]

NextStream ==
    \/ CreateBandwidthThrottle(TRUE)
    \/ \E t \in Ids, len \in 0..MaxStreamChunkLen : Write(t, len)
    \/ \E t \in Ids : TimerFires(t)
    \/ \E t \in Ids : Flush(t)
    \/ \E elapsed \in ElapsedTimes : ClockFires(elapsed)

SpecStream == InitStream /\ [][NextStream]_vars

\* Unthrottled groups: throttles of both kinds and their producers, the
\* clock, no call from outside
UnthrottledConfigs ==
    {[isThrottled |-> FALSE, bytesPerSecond |-> 1, ticksPerSecond |-> 1, maxBufferSize |-> 2],
     [isThrottled |-> FALSE, bytesPerSecond |-> 2, ticksPerSecond |-> 2, maxBufferSize |-> 3]}

InitUnthrottled ==
    /\ \E options \in UnthrottledConfigs : GroupCreated(options)
    /\ budget = [chunks |-> MaxUnthrottledChunks, calls |-> 0,
                 len |-> MaxUnthrottledChunkLen, elapsed |-> {500, 1000},
                 throttles |-> MaxUnthrottledThrottles, ticks |-> MaxUnthrottledTicks,
                 now |-> MaxUnthrottledTicks * MsPerSecond, hist |-> 0]

NextUnthrottled ==
    \/ \E bp \in BOOLEAN : CreateBandwidthThrottle(bp)
    \/ \E t \in AllIds, len \in 0..MaxUnthrottledChunkLen : Write(t, len)
    \/ \E t \in AllIds : TimerFires(t)
    \/ \E t \in AllIds : Flush(t)
    \/ \E elapsed \in ElapsedTimes : ClockFires(elapsed)

SpecUnthrottled == InitUnthrottled /\ [][NextUnthrottled]_vars

\* The quotas of the tick: up to MaxRateThrottles throttles that join the
\* in-flight list with an empty chunk and stay, punctual ticks, and every
\* rate up to MaxRateBytes
RateConfigs ==
    [isThrottled : {TRUE}, bytesPerSecond : 1..MaxRateBytes, ticksPerSecond : {1, 2},
     maxBufferSize : {MaxRateBytes}]

InitRate ==
    /\ \E options \in RateConfigs :
          /\ GroupCreated(options)
          /\ budget = [chunks |-> MaxRateThrottles, calls |-> 0, len |-> 0,
                       elapsed |-> {MsPerSecond \div options.ticksPerSecond},
                       throttles |-> MaxRateThrottles, ticks |-> MaxRateTicks,
                       now |-> MaxRateTicks * MsPerSecond, hist |-> MaxRateHist]

NextRate ==
    \/ CreateBandwidthThrottle(TRUE)
    \/ \E t \in RateIds : Write(t, 0)
    \/ \E t \in RateIds : TimerFires(t)
    \/ \E elapsed \in {500, 1000} : ClockFires(elapsed)

SpecRate == InitRate /\ [][NextRate]_vars

\* The throughput sampler next to one backpressure throttle and the clock
InitSampler ==
    /\ GroupCreated(LifecycleConfig)
    /\ budget = [chunks |-> MaxSamplerChunks, calls |-> 0, len |-> MaxSamplerChunkLen,
                 elapsed |-> {1000}, throttles |-> 1,
                 ticks |-> MaxSamplerTicks, now |-> MaxSamplerTicks * MsPerSecond,
                 hist |-> 0]

NextSampler ==
    \/ CreateBandwidthThrottle(TRUE)
    \/ \E t \in Ids, len \in 0..MaxSamplerChunkLen : Write(t, len)
    \/ \E t \in Ids : TimerFires(t)
    \/ \E t \in Ids : Flush(t)
    \/ \E elapsed \in ElapsedTimes : ClockFires(elapsed)
    \/ PollThroughput

SpecSampler == InitSampler /\ [][NextSampler]_vars

-----------------------------------------------------------------------------
(* Properties *)

\* the events of the last callback that are `op` of throttle t
Events(op, t) == {i \in 1..Len(calls) : calls[i].op = op /\ calls[i].t = t}

Happened(op) == \E i \in 1..Len(calls) : calls[i].op = op

\* C1: the in-flight list is non-empty exactly when the clock is running
C1_ClockIffInFlight ==
    (Len(inFlightRequests) > 0) <=> (clockIntervalId # NULL)

\* a throttle completed while another one stays in flight: the clock runs on;
\* or the last one completed and the clock stopped
C1_Witness ==
    /\ Happened("complete")
    /\ Len(inFlightRequests) = 0
    /\ clockIntervalId = NULL
    /\ Len(bandwidthThrottles) > 0

\* the bytes of throttle t that are buffered and not yet emitted
Pending(t) == throttle[t].pendingBytesCount - throttle[t].pendingBytesReadIndex

\* C2: at every point of a throttle's lifetime the bytes accepted from the
\* producer are the bytes emitted plus the bytes still pending
C2_Conservation ==
    \A t \in Created :
        throttle[t].written = Len(throttle[t].emitted) + Pending(t)

\* C3: the bytes emitted are a prefix of the bytes accepted, in their order:
\* none reordered, duplicated or skipped
C3_EmittedIsPrefix ==
    \A t \in Created :
        throttle[t].emitted = [i \in 1..Len(throttle[t].emitted) |-> i]

\* the quota a tick handed to throttle t: the argument of its process() calls
RECURSIVE QuotaOf(_, _)
QuotaOf(made, t) ==
    IF made = << >> THEN 0
    ELSE (IF Head(made).op = "process" /\ Head(made).t = t
          THEN MathRound(Head(made).max) ELSE 0) + QuotaOf(Tail(made), t)

\* the bytes a tick emitted
RECURSIVE EmittedBy(_)
EmittedBy(made) ==
    IF made = << >> THEN 0
    ELSE (IF Head(made).op = "push" THEN Head(made).n ELSE 0) + EmittedBy(Tail(made))

RECURSIVE QuotaOverTicks(_, _)
QuotaOverTicks(ticks, t) ==
    IF ticks = << >> THEN 0
    ELSE QuotaOf(Head(ticks).calls, t) + QuotaOverTicks(Tail(ticks), t)

RECURSIVE EmittedOverTicks(_)
EmittedOverTicks(ticks) ==
    IF ticks = << >> THEN 0
    ELSE EmittedBy(Head(ticks).calls) + EmittedOverTicks(Tail(ticks))

\* the quotas of all throttles over the ticks
TotalQuota(ticks) ==
    LET RECURSIVE Sum(_)
        Sum(S) == IF S = {} THEN 0
                  ELSE LET t == CHOOSE x \in S : TRUE
                       IN  QuotaOverTicks(ticks, t) + Sum(S \ {t})
    IN  Sum(AllIds)

Range(seq) == {seq[i] : i \in 1..Len(seq)}

\* the ticks are punctual and follow one another without a stop of the clock
Consecutive(ticks) ==
    /\ \A i \in 1..Len(ticks) : ~ticks[i].late
    /\ \A i \in 2..Len(ticks) :
          IF ticks[i - 1].tickIndex + 1 = config.ticksPerSecond
          THEN ticks[i].tickIndex = 0
               /\ ticks[i].secondIndex = ticks[i - 1].secondIndex + 1
          ELSE ticks[i].tickIndex = ticks[i - 1].tickIndex + 1
               /\ ticks[i].secondIndex = ticks[i - 1].secondIndex

\* the ticks start at a second boundary and all ran over the same k throttles
StableWindow(ticks, k) ==
    /\ Len(ticks) = k * config.ticksPerSecond
    /\ Consecutive(ticks)
    /\ ticks[1].tickIndex = 0
    /\ Len(ticks[1].inFlight) = k
    /\ Cardinality(Range(ticks[1].inFlight)) = k
    /\ \A i \in 1..Len(ticks) : ticks[i].inFlight = ticks[1].inFlight

\* C4: with a stable in-flight list of k throttles and punctual ticks, the
\* quotas handed to each throttle over k * ticksPerSecond consecutive ticks
\* that start at a second boundary sum to bytesPerSecond
C4_RotationIsFair ==
    \A k \in 1..MaxRateThrottles :
        LET ticks == LastN(hist, k * config.ticksPerSecond)
        IN  StableWindow(ticks, k) =>
                \A t \in Range(ticks[1].inFlight) :
                    QuotaOverTicks(ticks, t) = config.bytesPerSecond

\* three throttles shared 7 bytes per second over 2 ticks per second for
\* three seconds
C4_Witness ==
    /\ config.bytesPerSecond = 7 /\ config.ticksPerSecond = 2
    /\ StableWindow(hist, 3)

\* the ticks ran over throttle t alone, which had the bytes of its quota
\* pending each time
AloneWithEnough(ticks, t) ==
    \A i \in 1..Len(ticks) :
        /\ ticks[i].inFlight = << t >>
        /\ \E j \in 1..Len(ticks[i].calls) :
              LET e == ticks[i].calls[j]
              IN  e.op = "process" /\ e.t = t /\ e.pending >= MathRound(e.max)

\* C5: one throttle in flight that always has enough bytes pending, punctual
\* ticks: over any ticksPerSecond consecutive ticks bytesPerSecond bytes are
\* emitted
C5_WindowEmitsB ==
    LET ticks == LastN(hist, config.ticksPerSecond)
    IN  \A t \in Created :
            (/\ Len(ticks) = config.ticksPerSecond
             /\ Consecutive(ticks)
             /\ AloneWithEnough(ticks, t))
            => EmittedOverTicks(ticks) = config.bytesPerSecond

\* the last ticksPerSecond ticks are one second in which a throttle joined
JoinedMidSecond(ticks) ==
    /\ Len(ticks) = config.ticksPerSecond
    /\ Consecutive(ticks)
    /\ ticks[1].tickIndex = 0
    /\ \E i \in 2..Len(ticks) :
          /\ Len(ticks[i].inFlight) = Len(ticks[i - 1].inFlight) + 1
          /\ SubSeq(ticks[i].inFlight, 1, Len(ticks[i - 1].inFlight))
                 = ticks[i - 1].inFlight
    /\ \A i \in 2..Len(ticks) : Len(ticks[i].inFlight) >= Len(ticks[i - 1].inFlight)

\* C6: when a throttle joins between two ticks of a second, the next tick
\* hands out a quota to every throttle of the longer list, and the quotas of
\* all throttles over the ticks of that second do not exceed bytesPerSecond
C6_JoinKeepsTheCap ==
    LET ticks == LastN(hist, config.ticksPerSecond)
    IN  JoinedMidSecond(ticks) =>
            /\ \A i \in 1..Len(ticks) :
                  \A t \in Range(ticks[i].inFlight) :
                      \E j \in 1..Len(ticks[i].calls) :
                          ticks[i].calls[j].op = "process" /\ ticks[i].calls[j].t = t
            /\ TotalQuota(ticks) <= config.bytesPerSecond

\* the bytes accepted from the producer that were not emitted yet
Unemitted(t) ==
    [i \in 1..(throttle[t].written - Len(throttle[t].emitted)) |->
        Len(throttle[t].emitted) + i]

\* C7: after a write that would exceed maxBufferSize the throttle is
\* destroyed and out of the in-flight list; if it was the only one in flight
\* the list is empty and the clock stopped
C7_OverflowDestroys ==
    \A t \in Created :
        Events("overflow", t) # {} =>
            /\ throttle[t].ended
            /\ t \notin Range(bandwidthThrottles)
            /\ t \notin Range(inFlightRequests)
            /\ (Range(inFlightRequests) \subseteq {t} => clockIntervalId = NULL)

\* C8: a write beyond maxBufferSize appends nothing of the failing chunk
\* and loses none of the bytes that were pending before it
C8_OverflowKeepsPending ==
    \A t \in Created :
        (Events("overflow", t) # {} /\ Pending(t) > 0) =>
            /\ throttle[t].pendingBytesBuffer # NullBuffer
            /\ Subarray(throttle[t].pendingBytesBuffer,
                        throttle[t].pendingBytesReadIndex,
                        throttle[t].pendingBytesCount) = Unemitted(t)

\* throttle t received the only chunk written in the group, and transform
\* accepted its bytes
SingleWrite(t) ==
    /\ throttle[t].chunkCounter = 1
    /\ \A u \in Created \ {t} : throttle[u].chunkCounter = 0
    /\ throttle[t].written > 0

C10_UnthrottledProcessFinalizes ==
    \A t \in Created :
        (~config.isThrottled /\ Events("process", t) # {}) =>
            /\ throttle[t].done
            /\ t \notin Range(inFlightRequests)
            /\ throttle[t].ended

\* C10: in unthrottled mode no call of process() finalizes the throttle: it
\* does not complete it, and the throttle stays in flight with the clock
\* running
C10_UnthrottledProcessNeverFinalizes ==
    \A t \in Created :
        (~config.isThrottled /\ Events("process", t) # {}) =>
            /\ Events("complete", t) = {}
            /\ t \in Range(inFlightRequests)
            /\ clockIntervalId # NULL

\* unthrottled, a tick called process() of a throttle that has nothing
\* pending and whose producer closed
C10_Witness ==
    \E t \in Created :
        /\ ~config.isThrottled
        /\ Events("process", t) # {} /\ Events("start", t) = {}
        /\ throttle[t].flushCalled /\ ~throttle[t].isDataBeingWritten
        /\ Pending(t) = 0 /\ throttle[t].written > 0

\* C11: when process() completes a throttle (resolves done and stops it) the
\* buffer is empty, the producer has flushed and throttling is enabled;
\* process() never completes a throttle that has bytes pending or whose
\* producer is still writing
C11_CompletionTest ==
    \A t \in Created :
        Events("complete", t) # {} =>
            /\ throttle[t].pendingBytesReadIndex = throttle[t].pendingBytesCount
            /\ ~throttle[t].isDataBeingWritten
            /\ throttle[t].flushCalled
            /\ config.isThrottled
            /\ throttle[t].done

\* process() completed a throttle that had emitted two bytes
C11_Witness ==
    \E t \in Created :
        /\ Events("complete", t) # {}
        /\ Len(throttle[t].emitted) = 2 /\ throttle[t].written = 2

\* a tick called process() of throttle t (and t did not just start)
ProcessedByTick(t) == Events("process", t) # {} /\ Events("start", t) = {}

\* C12: a throttle in flight whose producer has ended has its buffer drained
\* by the ticks, then stops and leaves the in-flight list, and the clock
\* stops with the last one, in throttled and in unthrottled mode.  Only
\* process() finding the throttle drained takes it out of the list, so the
\* tick that leaves the throttle drained, with no chunk of it still to come,
\* is the one that must have done so
C12_DrainedThrottleLeaves ==
    \A t \in Created :
        (/\ ProcessedByTick(t)
         /\ throttle[t].flushCalled /\ throttle[t].timers = << >>
         /\ Pending(t) = 0)
        => /\ t \notin Range(inFlightRequests)
           /\ (inFlightRequests = << >> => clockIntervalId = NULL)

\* C13: the write of a chunk to a backpressure throttle completes only when
\* every byte of that chunk has been emitted downstream: while the promise of
\* the last chunk handed over is resolved, that chunk has reached transform and
\* none of the accepted bytes is pending
C13_WriteCompletesWhenEmitted ==
    \A t \in Created :
        (throttle[t].bp /\ throttle[t].chunkCounter > 0 /\ ~throttle[t].writePending)
        => throttle[t].timers = << >> /\ Pending(t) = 0

\* C14: the write of a chunk to a throttle without backpressure appends the
\* chunk to the buffer and completes as soon as it is appended: the callback
\* that takes the chunk leaves it accepted and its promise resolved
C14_PlainWriteCompletesOnAppend ==
    [][\A t \in Created, len \in 1..MaxChunkLen :
          (Write(t, len) /\ ~throttle[t].bp)
          => /\ throttle'[t].written = throttle[t].written + len
             /\ ~throttle'[t].writePending]_vars

\* C15: group.destroy() destroys every attached throttle: afterwards the
\* throttle list is empty and destroy() was invoked on each of the throttles
\* that were attached
C15_GroupDestroyDestroysAll ==
    [][DestroyGroup
       => /\ bandwidthThrottles' = << >>
          /\ \A t \in Range(bandwidthThrottles) :
                 (Events("destroy", t) # {})']_vars

\* C16: after group.destroy() the tick clock is stopped (clockIntervalId is
\* null), also when throttles were in flight
C16_GroupDestroyStopsClock ==
    [][DestroyGroup => clockIntervalId' = NULL]_vars

\* what the group keeps of its throttles: the two lists and the clock
GroupLists(w) == <<w.bandwidthThrottles, w.inFlightRequests, w.clockIntervalId>>

\* C17: throttle.destroy() is idempotent: in every state, calling it twice on
\* a throttle leaves the throttle list, the in-flight list and the clock as
\* calling it once does, whatever the siblings
C17_DestroyIsIdempotent ==
    \A t \in Created :
        GroupLists(destroy(destroy(World, t), t)) = GroupLists(destroy(World, t))

\* the list without throttle t, the others in their order
Without(seq, t) == SelectSeq(seq, LAMBDA x : x # t)

\* C18: handleRequestStop(t), as abort() and gracefulAbort() call it, removes
\* t and only t from the in-flight list: the other throttles stay in flight
\* in their order, and the clock is stopped exactly when the list gets empty
C18_StopRemovesOnlyItself ==
    [][\A t \in Created :
          (Abort(t) \/ GracefulAbort(t))
          => /\ inFlightRequests' = Without(inFlightRequests, t)
             /\ IF inFlightRequests' = << >> THEN clockIntervalId' = NULL
                ELSE clockIntervalId' = clockIntervalId]_vars

\* throttle t has stopped and is destroyed: its buffer is released and the
\* group lists it nowhere
StoppedAndDestroyed(t) ==
    /\ throttle[t].pendingBytesBuffer = NullBuffer
    /\ t \notin Range(bandwidthThrottles)
    /\ t \notin Range(inFlightRequests)

\* C19: abort() on a throttle that has already stopped and been destroyed is
\* a no-op: the in-flight list, the throttle list, the clock and the state of
\* every sibling are unchanged by the call
C19_AbortAfterDestroyIsNoOp ==
    [][\A t \in Created :
          (Abort(t) /\ StoppedAndDestroyed(t))
          => /\ UNCHANGED <<inFlightRequests, bandwidthThrottles, clockIntervalId>>
             /\ \A s \in Created \ {t} : throttle'[s] = throttle[s]]_vars

\* the quotas a tick can hand to process() under configuration cfg with n
\* throttles in flight, at tick index `tick`, elapsedTime after the last tick
TickQuotas(cfg, n, tick, elapsedTime) ==
    {TimesMultiplier(BytesPerRequestPerTick(cfg, length, i, tick),
                     DelayMultiplier(elapsedTime, cfg)) :
        length \in 1..n, i \in 0..(n - 1)}

\* C20: a change made by group.configure() takes effect no later than the
\* next executed tick: configure(options) makes options the configuration,
\* and every tick computes each quota it hands to process() from the
\* configuration of the moment it runs
C20_ConfigureTakesEffect ==
    [][/\ \A options \in Configs : Configure(options) => config' = options
       /\ \A elapsed \in ElapsedTimes :
              ClockFires(elapsed)
              => \A k \in 1..Len(calls') :
                     calls'[k].op = "process"
                     => calls'[k].max \in
                            TickQuotas(config, Len(inFlightRequests), tickIndex,
                                       IF lastTickTime > -1 THEN elapsed ELSE 0)]_vars

\* a throttle created when bytesPerSecond was lower than it is now is handed
\* a quota of two bytes or more, which the earlier rate never gives
C20_Witness ==
    \E t \in Created :
        /\ throttle[t].pendingBytesBufferExpandedSize < config.bytesPerSecond
        /\ \E k \in Events("process", t) :
               /\ Events("start", t) = {}
               /\ calls[k].max # INFINITY
               /\ calls[k].max.num >= 2 * calls[k].max.den

\* C21: in every state 0 <= tickIndex < ticksPerSecond and secondIndex >= 0,
\* also after configure() changed ticksPerSecond with throttles in flight
C21_CountersInRange ==
    /\ 0 <= tickIndex /\ tickIndex < config.ticksPerSecond
    /\ secondIndex >= 0

\* the sum of the n of the events `op` of throttle t among `made`
RECURSIVE SumOf(_, _, _)
SumOf(op, t, made) ==
    IF made = << >> THEN 0
    ELSE (IF Head(made).op = op /\ Head(made).t = t THEN Head(made).n ELSE 0)
         + SumOf(op, t, Tail(made))

\* n bytes is what min(maxBytes, pending) allows: all that is pending, or as
\* much as maxBytes admits, and never more than maxBytes
IsMinOf(n, maxBytes, pending) ==
    IF maxBytes = INFINITY THEN n = pending
    ELSE /\ n <= pending
         /\ n * maxBytes.den <= maxBytes.num
         /\ (n = pending \/ (n + 1) * maxBytes.den > maxBytes.num)

\* C22: process(maxBytes) emits exactly n = min(maxBytes, pending) bytes,
\* never more than maxBytes, and pushes nothing when n = 0 (for the calls of
\* the last callback that did not throw)
C22_ProcessEmitsMin ==
    \A t \in Created :
        Events("throw", t) = {}
        => /\ \A k \in Events("process", t) :
                  IsMinOf(calls[k].n, calls[k].max, calls[k].pending)
           /\ SumOf("push", t, calls) = SumOf("process", t, calls)
           /\ \A k \in Events("push", t) : calls[k].n > 0

\* the number of times the callback that led to this state visited throttle
\* t in the tick's loop: it called its process() or aborted it gracefully
Visits(t) ==
    Cardinality({k \in 1..Len(calls) :
                    calls[k].t = t /\ calls[k].op \in {"process", "gracefulAbort"}})

\* C23: when a tick's loop removes a throttle from the in-flight list (a
\* graceful abort, or a process() that completes it), every throttle in
\* flight at the start of the tick is still visited exactly once in that
\* tick: no sibling is skipped or processed twice
C23_LoopVisitsEachOnce ==
    [][\A elapsed \in ElapsedTimes :
          (ClockFires(elapsed) /\ (Happened("gracefulAbort") \/ Happened("complete"))')
          => \A t \in Range(inFlightRequests) : Visits(t)' = 1]_vars

\* C24: in every state each throttle is either idle (not in the in-flight
\* list, nothing pending) or in flight (in the list, with bytes pending or
\* its producer still writing)
C24_IdleOrInFlight ==
    \A t \in Created :
        IF t \in Range(inFlightRequests)
        THEN Pending(t) > 0 \/ throttle[t].isDataBeingWritten
        ELSE Pending(t) = 0

\* C25: a firing of the clock in throttled mode, after an executed tick and
\* less than tickDurationMs after the last executed one, does no work: no
\* process() is called, no byte is emitted, and the counters, the lists and
\* the throttles are as before
C25_EarlyFiringDoesNothing ==
    [][\A elapsed \in ElapsedTimes :
          (/\ ClockFires(elapsed)
           /\ config.isThrottled /\ lastTickTime > -1
           /\ elapsed * config.ticksPerSecond < MsPerSecond)
          => /\ calls' = << >>
             /\ UNCHANGED <<tickIndex, secondIndex, lastTickTime, throttle,
                             inFlightRequests, bandwidthThrottles, clockIntervalId,
                             totalBytesProcessed>>]_vars

\* after its first write reached the buffer and a tick ran, a throttle with
\* bytes pending and nothing else going on (no further write, no flush) saw
\* a callback that made no call: a firing that came 500 ms after the tick
\* where a tick lasts 1000 ms
C25_Witness ==
    /\ config.isThrottled /\ config.ticksPerSecond = 1 /\ lastTickTime > -1
    /\ calls = << >>
    /\ budget.calls = 0 /\ budget.throttles = 1 /\ budget.chunks = MaxStreamChunks - 1
    /\ \E t \in Created :
           /\ throttle[t].timers = << >> /\ ~throttle[t].flushCalled
           /\ Pending(t) > 0 /\ t \in Range(inFlightRequests)

\* C26: whenever the clock is not running the counters are reset: tickIndex
\* and secondIndex are 0 and lastTickTime is -1, also after a tick in which
\* the last throttle in flight completed, in the loop or in the continuation
\* of process()
C26_StoppedClockIsReset ==
    clockIntervalId = NULL
    => tickIndex = 0 /\ secondIndex = 0 /\ lastTickTime = -1

\* a tick pushed the last bytes of the only throttle in flight and, in the
\* continuation of that process() call, completed it; ticks had run before
C26_Witness ==
    /\ clockIntervalId = NULL /\ inFlightRequests = << >>
    /\ \E t \in Created :
           /\ \E i \in Events("push", t), j \in Events("complete", t) : i < j
           /\ Len(throttle[t].emitted) = 2 /\ throttle[t].emissions = 2

\* C27: each sample the sampler pushes is the number of bytes the group
\* processed since the previous sample, also after an interval without
\* bytes, and the window never holds more than throughputSampleSize samples
C27_SampleIsBytesSinceLast ==
    [][PollThroughput
       => /\ sampler'.bytesPerSecondSamples # << >>
          /\ sampler'.bytesPerSecondSamples[Len(sampler'.bytesPerSecondSamples)]
                 = TotalEmitted(AllIds) - sampler.seen
          /\ Len(sampler'.bytesPerSecondSamples) <= throughputSampleSize]_vars

BufferWithinCapacity(t) ==
    /\ Pending(t) <= throttle[t].pendingBytesCount
    /\ throttle[t].pendingBytesCount <= throttle[t].pendingBytesBufferExpandedSize
    /\ throttle[t].pendingBytesBufferExpandedSize <= config.maxBufferSize
    /\ throttle[t].pendingBytesBuffer # NullBuffer
       => Len(throttle[t].pendingBytesBuffer) = throttle[t].pendingBytesBufferExpandedSize

\* the capacity of throttle t changes only in a transform, and then it grows
\* to min(maxBufferSize, bytesPerSecond * ceil(needed / bytesPerSecond))
CapacityOnlyGrows(t) ==
    throttle'[t].pendingBytesBufferExpandedSize # throttle[t].pendingBytesBufferExpandedSize
    => /\ TimerFires(t)
       /\ throttle'[t].pendingBytesBufferExpandedSize
              > throttle[t].pendingBytesBufferExpandedSize
       /\ throttle'[t].pendingBytesBufferExpandedSize
              = Min(config.maxBufferSize,
                    config.bytesPerSecond
                      * CeilDiv(Head(throttle[t].timers) + Pending(t),
                                config.bytesPerSecond))

\* C29: with maxBufferSize >= bytesPerSecond, in every state the pending
\* bytes of a throttle are at most its buffer capacity and the capacity is at
\* most maxBufferSize; the capacity only grows, to min(maxBufferSize,
\* bytesPerSecond * ceil(needed / bytesPerSecond)), and an accepted write
\* never writes past the end of the buffer
C29_PendingWithinCapacity ==
    /\ [](\A t \in Created : BufferWithinCapacity(t))
    /\ [][\A t \in Created : CapacityOnlyGrows(t)]_vars

\* the capacity grew from bytesPerSecond to maxBufferSize and the buffer is
\* full, part of it read
C29_Witness ==
    \E t \in Created :
        /\ config.bytesPerSecond < config.maxBufferSize
        /\ throttle[t].pendingBytesBufferExpandedSize = config.maxBufferSize
        /\ throttle[t].pendingBytesCount = config.maxBufferSize
        /\ throttle[t].pendingBytesBuffer # NullBuffer
        /\ Len(throttle[t].emitted) > 0

\* throttle t was gracefully aborted: done is resolved, it is in neither list
\* and it is destroyed
GracefullyAborted(t) ==
    /\ throttle[t].done
    /\ t \notin Range(inFlightRequests)
    /\ t \notin Range(bandwidthThrottles)
    /\ throttle[t].pendingBytesBuffer = NullBuffer

\* C30: a throttle that the loop of a tick finds detached (its readable or
\* writable side not locked) is aborted gracefully instead of processed: done
\* is resolved, the throttle leaves the in-flight list and is destroyed, and
\* no byte of it is emitted in that tick
C30_DetachedIsAborted ==
    [][\A elapsed \in ElapsedTimes, t \in Created :
          (ClockFires(elapsed) /\ (Events("gracefulAbort", t) # {})')
          => /\ t \in Range(inFlightRequests) /\ ~throttle[t].locked
             /\ GracefullyAborted(t)'
             /\ throttle'[t].emitted = throttle[t].emitted
             /\ (Events("process", t) = {})']_vars

\* the producer of throttle t waits on a write that nothing is left to
\* resolve: the promise of the chunk handed over last is unresolved, no
\* setTimeout of the throttle is pending (transform ran, or was never
\* scheduled), and no byte is buffered whose emission would call the resolver
Starved(t) ==
    /\ throttle[t].writePending
    /\ throttle[t].timers = << >>
    /\ Pending(t) = 0

\* no step of the program ends the wait of a starved producer
StarvedForEver ==
    [][\A t \in Created : Starved(t) => Starved(t)']_vars

\* C31: with bytesPerSecond > 0 and the consumer attached, every chunk handed
\* to the transform callback of a backpressure throttle is appended to the
\* buffer and its write promise is resolved in the end, whatever the length
\* of the chunk: the producer is never left waiting for ever.  Stated for a
\* finite run: only an emission resolves the promise, so once transform has
\* run there are bytes of the throttle left to emit while the write is
\* unresolved
C31_ProducerNeverStarves ==
    \A t \in Created :
        (/\ throttle[t].bp /\ config.bytesPerSecond > 0
         /\ throttle[t].locked /\ ~throttle[t].ended)
        => ~Starved(t)

\* the list holds no element twice
NoDuplicates(seq) ==
    \A i, j \in 1..Len(seq) : seq[i] = seq[j] => i = j

\* C32: in every state the in-flight list holds no throttle twice and every
\* throttle in it is in the group's list of throttles (attached, not
\* destroyed)
C32_InFlightIsRegistered ==
    /\ NoDuplicates(inFlightRequests)
    /\ Range(inFlightRequests) \subseteq Range(bandwidthThrottles)

=============================================================================
